---- MODULE Spec2Model ----
(***************************************************************************)
(* A model of pyseer's association run: main() of pyseer/__main__.py and   *)
(* the variant readers of pyseer/input.py.                                 *)
(*                                                                         *)
(* Spec   : one run of main(), from the option checks to the final counts, *)
(*          in the fixed-effects sequential, fixed-effects parallel and    *)
(*          LMM modes.                                                     *)
(* SpecRV : read_variant() applied call after call to the records of one   *)
(*          variant source (kmers, Rtab, vcf, vcf with burden regions),    *)
(*          with the AF test of iter_variants and of load_var_block        *)
(*          applied to every result.                                       *)
(* SpecLmmLoop : the loop of main() over the variants fit_lmm returns for *)
(*          one block.                                                     *)
(***************************************************************************)
EXTENDS Integers, Sequences, FiniteSets, TLC

\* ---------------------------------------------------------------- bounds
\* Number of samples in the phenotype index.
NSamples == 2
\* Most records a variant source holds.
MaxRecords == 3
\* kmer_per_core (1000 in the code), scaled down.
kmer_per_core == 1
\* lmm_block_size (10000 in the code), scaled down.
lmm_block_size == 2
\* p-values are the rationals 0/PMax .. PMax/PMax.
PMax == 1

\* ------------------------------------------------------- values and helpers
\* Python's None, and a value that is not None: a 0- or 1-element tuple.
None == << >>
Some(v) == << v >>
Val(o) == o[1]

\* A rational number n/d (d > 0) and its order.
Rat(n, d) == << n, d >>
RatLeq(x, y) == x[1] * y[2] <= y[1] * x[2]
RatLt(x, y) == x[1] * y[2] < y[1] * x[2]
RatEq(x, y) == x[1] * y[2] = y[1] * x[2]

\* The phenotype's samples, and one sample that only a variant file names.
Samples == 1 .. NSamples
Ids == 1 .. (NSamples + 1)

Min(S) == CHOOSE x \in S : \A y \in S : x <= y

\* sorted(S) for a set of sample names
RECURSIVE sorted(_)
sorted(S) ==
    IF S = {} THEN << >>
    ELSE LET m == Min(S) IN << m >> \o sorted(S \ {m})

Range(s) == { s[i] : i \in DOMAIN s }

\* p.index as load_phenotypes returns it: the samples in file order,
\* here ascending or descending.
PIndexOrders ==
    { [i \in 1 .. NSamples |-> i], [i \in 1 .. NSamples |-> NSamples + 1 - i] }

PGrid == { Rat(n, PMax) : n \in 0 .. PMax }

\* (min_af, max_af) pairs: the whole range, a range that cuts both ends, and
\* a range of one point.
AfBounds ==
    { << Rat(0, 1), Rat(1, 1) >>,
      << Rat(1, 2 * NSamples), Rat(2 * NSamples - 1, 2 * NSamples) >>,
      << Rat(1, 2), Rat(1, 2) >> }

\* ------------------------------------------------------------ input.py
\* hash_pattern: k.view(np.uint8) is the bytes of the (64-bit, little-endian)
\* entries; the md5 digest is kept as a tagged copy of the bytes it digests.
RECURSIVE view_uint8(_)
view_uint8(k) ==
    IF k = << >> THEN << >>
    ELSE << Head(k) % 256 >> \o [i \in 1 .. 7 |-> 0] \o view_uint8(Tail(k))

hash_pattern(k) == << "md5", view_uint8(k) >>

\* A read_variant whose indicator follows the sorted samples instead of
\* p.index: what C9 must tell apart from the code.
CommonDictionaryUnsorted(eof, var_name, d, p_index, all_strains) ==
    LET kstrains == sorted(DOMAIN d \cap all_strains)
        nkstrains == sorted(all_strains \ Range(kstrains))
        d2 == [x \in DOMAIN d \cup Range(nkstrains) |->
                  IF x \in Range(nkstrains) THEN 0 ELSE d[x]]
        af == Rat(Len(kstrains), Cardinality(all_strains))
        order == sorted(Range(p_index))
        k == [i \in 1 .. Len(order) |-> d2[order[i]]]
    IN  [eof |-> eof, k |-> Some(k), var_name |-> Some(var_name),
         kstrains |-> Some(kstrains), nkstrains |-> Some(nkstrains),
         af |-> Some(af)]

\* The end of read_variant (lines 193-207): d is the dictionary of the
\* present samples (every value 1) that the format's branch has built.
CommonDictionary(eof, var_name, d, p_index, all_strains) ==
    LET kstrains == sorted(DOMAIN d \cap all_strains)
        nkstrains == sorted(all_strains \ Range(kstrains))
        d2 == [x \in DOMAIN d \cup Range(nkstrains) |->
                  IF x \in Range(nkstrains) THEN 0 ELSE d[x]]
        af == Rat(Len(kstrains), Cardinality(all_strains))
        inD == SelectSeq(p_index, LAMBDA x : x \in DOMAIN d2)
        k == [i \in 1 .. Len(inD) |-> d2[inD[i]]]
    IN  [eof |-> eof, k |-> Some(k), var_name |-> Some(var_name),
         kstrains |-> Some(kstrains), nkstrains |-> Some(nkstrains),
         af |-> Some(af)]

\* return(eof, None, None, None, None, None)
NoVariant(eof) ==
    [eof |-> eof, k |-> None, var_name |-> None, kstrains |-> None,
     nkstrains |-> None, af |-> None]

\* An AF test that excludes the bounds themselves.
IterRejectsStrict(r, min_af, max_af) ==
    (r.k = None) \/ ~(RatLt(min_af, Val(r.af)) /\ RatLt(Val(r.af), max_af))

\* The AF test of iter_variants (line 256): TRUE when the all-None tuple is
\* yielded.
IterRejects(r, min_af, max_af) ==
    (r.k = None) \/ ~(RatLeq(min_af, Val(r.af)) /\ RatLeq(Val(r.af), max_af))

\* The AF test of load_var_block (line 294): TRUE when the variant goes on
\* to the pre-test.
BlockAfPass(r, min_af, max_af) ==
    (r.k # None) /\ (RatLeq(min_af, Val(r.af)) /\ RatLeq(Val(r.af), max_af))


\* iter_variants' yield (lines 256-268): the all-None tuple, or the arguments
\* of fixed_effects_regression that vary with the variant.
NoneTuple ==
    [var_name |-> None, v |-> None, k |-> None, af |-> None, pattern |-> None,
     kstrains |-> None, nkstrains |-> None]

iter_variants_yield(r, min_af, max_af) ==
    IF IterRejects(r, min_af, max_af) THEN NoneTuple
    ELSE [var_name |-> r.var_name, v |-> Some("p.values"), k |-> r.k,
          af |-> r.af, pattern |-> Some(hash_pattern(Val(r.k))),
          kstrains |-> r.kstrains, nkstrains |-> r.nkstrains]

\* ----------------------------------------------------------- classes.py
LMMFields ==
    << "kmer", "pattern", "af", "prep", "pvalue", "kbeta", "bse", "frac_h2",
       "max_lineage", "kstrains", "nkstrains", "notes", "prefilter", "filter" >>

\* Calling the namedtuple with positional arguments: a record when there is
\* one argument per field, None for the TypeError Python raises otherwise.
LMM(args) ==
    IF Len(args) = Len(LMMFields)
    THEN Some([f \in Range(LMMFields) |->
                 args[CHOOSE i \in DOMAIN LMMFields : LMMFields[i] = f]])
    ELSE None

\* The call of load_var_block, lines 301-303.
load_var_block_LMM(r, pattern, prep) ==
    LMM(<< Val(r.var_name), pattern, Val(r.af), prep, 0, 0, 0, 0, None,
           Val(r.kstrains), Val(r.nkstrains) >>)

\* ------------------------------------------- model.py, lmm.py, utils.py
\* fixed_effects_regression: the all-None tuple comes back flagged prefilter,
\* any other variant is fitted and comes back with the fit's verdict.
fixed_effects_regression(data, verdict) ==
    IF data.v = None
    THEN [kmer |-> data.var_name, pattern |-> data.pattern, af |-> data.af,
          kstrains |-> data.kstrains, nkstrains |-> data.nkstrains,
          prefilter |-> TRUE, filter |-> FALSE]
    ELSE [kmer |-> data.var_name, pattern |-> data.pattern, af |-> data.af,
          kstrains |-> data.kstrains, nkstrains |-> data.nkstrains,
          prefilter |-> FALSE, filter |-> verdict]

\* fit_lmm: one fitted variant per variant of the block, in the block's
\* order, with the p-value the fit gives it.
fit_lmm(variants, variant_mat, pvalues) ==
    [i \in 1 .. Len(variants) |-> [variants[i] EXCEPT !.pvalue = pvalues[i]]]

\* format_output: the columns of one output line that come from the variant.
format_output(x) == << Val(x.kmer), Val(x.af) >>
format_output_lmm(x) == << x.kmer, x.af >>

\* ------------------------------------- input.py: the formats' branches
\* load_burden (lines 119-123): every line of the region file, split in
\* (name, region), is appended to the queue.
load_burden(region_file, burden_regions) == burden_regions \o region_file

\* A queue consumed from its back.
BurdenPopRight(burden_regions) ==
    IF Len(burden_regions) > 0
    THEN [line_in |-> Some(burden_regions[Len(burden_regions)]),
          rest |-> SubSeq(burden_regions, 1, Len(burden_regions) - 1)]
    ELSE [line_in |-> None, rest |-> burden_regions]

\* lines 134-137: the front of the queue, or None when it is empty
BurdenPop(burden_regions) ==
    IF Len(burden_regions) > 0
    THEN [line_in |-> Some(Head(burden_regions)), rest |-> Tail(burden_regions)]
    ELSE [line_in |-> None, rest |-> burden_regions]

\* kmers (lines 157-162): strains holds the sample of each sample:count token
KmerDict(strains) == [x \in Range(strains) |-> 1]

\* Rtab (lines 187-191): zip pairs the line's tokens with the header's samples
RtabDict(strains, sample_order) ==
    LET n == Min({Len(strains), Len(sample_order)})
    IN  [x \in { sample_order[i] : i \in { j \in 1 .. n : strains[j] # "0" } }
           |-> 1]

\* str(haplotype) for the values pysam gives: None (missing) or an allele
str(haplotype) ==
    IF haplotype = None THEN "None"
    ELSE IF Val(haplotype) = 0 THEN "0" ELSE "1"

\* lines 229-232: the call marks its sample present
CallPresent(GT) ==
    \E i \in DOMAIN GT : str(GT[i]) # "." /\ GT[i] # Some(0)

\* read_vcf_var (lines 212-234): the name, or None, and d as it leaves it
read_vcf_var(variant, d) ==
    IF Len(variant.alts) > 1 THEN [var_name |-> None, d |-> d]
    ELSE IF "PASS" \notin variant.filter /\ "." \notin variant.filter
    THEN [var_name |-> None, d |-> d]
    ELSE [var_name |-> Some(<< variant.contig, variant.pos, variant.alts >>),
          d |-> [x \in DOMAIN d \cup
                       { smp \in DOMAIN variant.samples :
                           CallPresent(variant.samples[smp]) } |-> 1]]

\* re.match('^(.+):(\d+)-(\d+)$', region) on a region given by its tokens
Digits == { "1", "2", "5" }
region_match(region) ==
    /\ Len(region) = 5
    /\ region[2] = ":" /\ region[3] \in Digits
    /\ region[4] = "-" /\ region[5] \in Digits

\* A loop that keeps the presence of the last record fetched only.
burden_dictLast(fetched, d) ==
    IF fetched = << >> THEN d
    ELSE read_vcf_var(fetched[Len(fetched)], d).d

\* lines 177-180: every record fetched for the region adds to d
RECURSIVE burden_dict(_, _)
burden_dict(fetched, d) ==
    IF fetched = << >> THEN d
    ELSE burden_dict(Tail(fetched), read_vcf_var(Head(fetched), d).d)

EmptyDict == [x \in {} |-> 1]

\* lines 153-191: the branch of the format. ok is FALSE where read_variant
\* returns (eof, None, ...) from inside the branch.
variant_dict(line, fetched, var_type, burden, sample_order) ==
    IF var_type = "kmers"
    THEN [ok |-> TRUE, var_name |-> line.var_name, d |-> KmerDict(line.strains)]
    ELSE IF var_type = "vcf" /\ ~burden
    THEN LET v == read_vcf_var(line, EmptyDict)
         IN  IF v.var_name = None
             THEN [ok |-> FALSE, var_name |-> << >>, d |-> EmptyDict]
             ELSE [ok |-> TRUE, var_name |-> Val(v.var_name), d |-> v.d]
    ELSE IF var_type = "vcf"
    THEN IF region_match(line[2])
         THEN [ok |-> TRUE, var_name |-> line[1],
               d |-> burden_dict(fetched, EmptyDict)]
         ELSE [ok |-> FALSE, var_name |-> << >>, d |-> EmptyDict]
    ELSE [ok |-> TRUE, var_name |-> line.var_name,
          d |-> RtabDict(line.strains, sample_order)]

\* read_variant (lines 128-207) on the line it has taken from the source:
\* line_in is None at the end of the file or of the queue.
read_variant(line_in, fetched, p_index, var_type, burden, all_strains, sample_order) ==
    IF line_in = None THEN NoVariant(TRUE)
    ELSE LET f == variant_dict(Val(line_in), fetched, var_type, burden,
                               sample_order)
         IN  IF ~f.ok THEN NoVariant(FALSE)
             ELSE CommonDictionary(FALSE, f.var_name, f.d, p_index, all_strains)

\* ------------------------------------------------------------ __main__.py
VARIABLES
    pc,              \* where main() is
    exit_code,       \* None while running
    lmm, cpu,        \* options.lmm, options.cpu
    continuous,      \* options.continuous after the phenotype check
    p_index,         \* p.index
    min_af, max_af, output_patterns, filter_pvalue, lrt_pvalue,
    acc,             \* prefilter, tested, printed, stdout and the patterns file
    report,          \* the four count lines on stderr
    gen_done,        \* v_iter has finished
    chunk,           \* the arguments islice has drawn for starmap
    ret,             \* the results of the chunk, None where not yet fitted
    blk,             \* the locals of load_var_block
    hist,            \* history of the run (not program state)
    ref,             \* what the sequential loop makes of the records read
    rv               \* the state of SpecRV

main_vars ==
    << pc, exit_code, lmm, cpu, continuous, p_index, min_af, max_af,
       output_patterns, filter_pvalue, lrt_pvalue, acc, report, gen_done,
       chunk, ret, blk, hist, ref >>

vars == << main_vars, rv >>

Acc0 == [prefilter |-> 0, tested |-> 0, printed |-> 0, out |-> << >>,
         patterns |-> << >>]

\* load_var_block, lines 276-279
Blk0 ==
    [var_idx |-> 0, prefilter |-> 0, variants |-> << >>,
     variant_mat |-> [j \in 1 .. lmm_block_size |-> [i \in 1 .. NSamples |-> 0]],
     eof |-> FALSE]

Hist0 ==
    [io |-> FALSE,          \* an input file has been opened
     pool |-> FALSE,        \* Pool(options.cpu) has been called
     streaming |-> FALSE,   \* the variant loop has begun
     cause |-> "none",      \* why the run ended early
     calls |-> 0,           \* calls of read_variant
     valid |-> 0,           \* calls that returned a variant
     invalid |-> 0,         \* calls that returned k None without eof
     eof |-> FALSE,         \* eof has been returned
     after_eof |-> 0,       \* calls made after eof was returned
     lost |-> 0,            \* variants dropped by the LMM pre-test
     yielded |-> << >>,     \* patterns of the variants handed on, in read order
     fits |-> << >>,        \* for the chunk: how often each item was fitted
     admitted |-> 0,        \* records that passed the AF test and the pre-test
     blocks |-> << >>,      \* the blocks given to fit_lmm, in call order
     block_ks |-> << >>,    \* indicators of the records admitted to the open block
     unbound |-> {}]        \* locals of main read before any assignment

MainInit ==
    /\ pc = "check_args"
    /\ exit_code = None
    /\ lmm \in BOOLEAN
    /\ cpu \in {1, 2}
    /\ continuous = FALSE
    /\ p_index = << >>
    /\ min_af = None /\ max_af = None
    /\ output_patterns = FALSE
    /\ filter_pvalue = None /\ lrt_pvalue = None
    /\ acc = Acc0
    /\ report = None
    /\ gen_done = FALSE
    /\ chunk = << >>
    /\ ret = << >>
    /\ blk = Blk0
    /\ hist = Hist0
    /\ ref = Acc0

\* The checks without the one on --lmm with --cpu.
ArgumentErrorNoLmmCheck(o) ==
    \/ o.max_dimensions < 1
    \/ (o.cpu > 1 /\ o.python < 3)
    \/ (o.burden /\ ~o.vcf)
    \/ (o.lmm /\ o.distances) \/ (~o.lmm /\ o.similarity)

\* The checks of lines 194-215 on the options they read.
ArgumentError(o) ==
    \/ o.max_dimensions < 1
    \/ (o.cpu > 1 /\ o.python < 3)
    \/ (o.burden /\ ~o.vcf)
    \/ (o.lmm /\ o.distances) \/ (~o.lmm /\ o.similarity)
    \/ (o.cpu > 1 /\ o.lmm)

Exit(code, cause) ==
    /\ pc' = "exit"
    /\ exit_code' = Some(code)
    /\ hist' = [hist EXCEPT !.cause = cause]

CheckArgs ==
    /\ pc = "check_args"
    /\ \E max_dimensions \in {0, 1}, python \in {2, 3},
          burden, vcf, distances, similarity \in BOOLEAN :
          LET o == [max_dimensions |-> max_dimensions, python |-> python,
                    burden |-> burden, vcf |-> vcf, distances |-> distances,
                    similarity |-> similarity, lmm |-> lmm, cpu |-> cpu]
          IN  IF ArgumentError(o)
              THEN Exit(1, "arguments")
              ELSE /\ pc' = "load_phenotypes"
                   /\ UNCHANGED << exit_code, hist >>
    /\ UNCHANGED << lmm, cpu, continuous, p_index, min_af, max_af,
                    output_patterns, filter_pvalue, lrt_pvalue, acc, report,
                    gen_done, chunk, ret, blk, ref, rv >>

\* lines 221-230: load_phenotypes, then the binary/continuous detection
LoadPhenotypes ==
    /\ pc = "load_phenotypes"
    /\ p_index' \in PIndexOrders
    /\ continuous' \in BOOLEAN
    /\ hist' = [hist EXCEPT !.io = TRUE]
    /\ pc' = "covariates"
    /\ UNCHANGED << exit_code, lmm, cpu, min_af, max_af, output_patterns,
                    filter_pvalue, lrt_pvalue, acc, report, gen_done, chunk,
                    ret, blk, ref, rv >>

\* load_covariates on a file of ncols columns after the sample name:
\* None when a selected column is 1 or beyond the file's columns.
load_covariates(ncols, covariates) ==
    IF covariates = None THEN Some(<< >>)
    ELSE IF \E i \in DOMAIN Val(covariates) :
                Val(covariates)[i] = 1 \/ Val(covariates)[i] > ncols + 1
         THEN None
         ELSE Some(Val(covariates))

\* lines 232-240
LoadCovariates ==
    /\ pc = "covariates"
    /\ \E given \in BOOLEAN,
          use \in {None, Some(<< 2 >>), Some(<< 1 >>), Some(<< 2, 4 >>)} :
          IF given /\ load_covariates(2, use) = None
          THEN Exit(1, "use_covariates")
          ELSE /\ pc' = "models"
               /\ UNCHANGED << exit_code, hist >>
    /\ UNCHANGED << lmm, cpu, continuous, p_index, min_af, max_af,
                    output_patterns, filter_pvalue, lrt_pvalue, acc, report,
                    gen_done, chunk, ret, blk, ref, rv >>

\* lines 242-311: whether m, null_fit and firth_null are assigned by the
\* first block, and whether line 304 reads null_fit.
StructureBlock(o) == (o.lineage /\ ~o.lineage_clusters) \/ ~o.lmm
ReadsNullFitLlf(o) == (o.lineage \/ ~o.lmm) /\ ~o.continuous

\* The locals lines 243-267 assign
SetupAssigned(o) ==
    IF StructureBlock(o) THEN {"m", "null_fit", "firth_null"} ELSE {}

\* The locals lines 277-304 read without having assigned them: m and null_fit
\* for the lineage effects on the structure (lines 286-287), null_fit for
\* its llf (line 304)
SetupReads(o) ==
    (IF o.lineage /\ ~o.lineage_clusters THEN {"m", "null_fit"} ELSE {})
        \cup (IF ReadsNullFitLlf(o) THEN {"null_fit"} ELSE {})

\* The locals the call of iter_variants reads (lines 375-381)
IterVariantsReads(o) ==
    IF ~o.lmm THEN {"m", "null_fit", "firth_null"} ELSE {}

SetupModels ==
    /\ pc = "models"
    /\ \E lineage, lineage_clusters, null_fit_ok \in BOOLEAN :
          LET o == [lineage |-> lineage, lineage_clusters |-> lineage_clusters,
                    lmm |-> lmm, continuous |-> continuous]
          IN  IF StructureBlock(o) /\ ~null_fit_ok
              THEN Exit(1, "null_fit")
              ELSE IF (SetupReads(o) \cup IterVariantsReads(o))
                         \ SetupAssigned(o) # {}
              THEN /\ pc' = "crashed"
                   /\ hist' = [hist EXCEPT
                         !.cause = "UnboundLocalError",
                         !.unbound = (SetupReads(o) \cup IterVariantsReads(o))
                                        \ SetupAssigned(o)]
                   /\ UNCHANGED exit_code
              ELSE /\ pc' = "open_variants"
                   /\ UNCHANGED << exit_code, hist >>
    /\ UNCHANGED << lmm, cpu, continuous, p_index, min_af, max_af,
                    output_patterns, filter_pvalue, lrt_pvalue, acc, report,
                    gen_done, chunk, ret, blk, ref, rv >>

\* lines 313-381: the variant file, the counters, the patterns file, the
\* header, the pool and (fixed effects) the iterator. The options that the
\* variant loop reads are drawn here.
OpenVariants ==
    /\ pc = "open_variants"
    /\ \E b \in AfBounds : min_af' = Some(b[1]) /\ max_af' = Some(b[2])
    /\ output_patterns' \in BOOLEAN
    /\ IF lmm
       THEN /\ filter_pvalue' \in { Some(x) : x \in PGrid }
            /\ lrt_pvalue' \in { Some(x) : x \in PGrid }
       ELSE UNCHANGED << filter_pvalue, lrt_pvalue >>
    /\ acc' = Acc0
    /\ hist' = [hist EXCEPT !.pool = (cpu > 1), !.streaming = TRUE]
    /\ blk' = Blk0
    /\ pc' = IF lmm THEN "lmm" ELSE IF cpu > 1 THEN "parallel" ELSE "sequential"
    /\ UNCHANGED << exit_code, lmm, cpu, continuous, p_index, report, gen_done,
                    chunk, ret, ref, rv >>


\* ----------------------------------------------------- the variant source
\* In Spec the source is known by what read_variant returns: one presence
\* set per attainable AF value, a record the format rejects, or eof.
PresenceSets == { 1 .. c : c \in 0 .. NSamples }

ReadResults(var_name) ==
    IF hist.eof \/ hist.calls >= MaxRecords THEN { NoVariant(TRUE) }
    ELSE { NoVariant(TRUE), NoVariant(FALSE) } \cup
         { CommonDictionary(FALSE, var_name, [x \in S |-> 1], p_index, Samples) :
             S \in PresenceSets }

NoteRead(h, r) ==
    [h EXCEPT !.calls = @ + 1,
              !.valid = @ + (IF ~r.eof /\ r.k # None THEN 1 ELSE 0),
              !.invalid = @ + (IF ~r.eof /\ r.k = None THEN 1 ELSE 0),
              !.eof = @ \/ r.eof,
              !.after_eof = @ + (IF h.eof THEN 1 ELSE 0)]

NoteYield(h, data) ==
    IF data.v = None THEN h
    ELSE [h EXCEPT !.yielded = Append(@, Val(data.pattern))]

\* ------------------------------------------ fixed effects, sequential
\* lines 410-423: what the loop does with one result
AggregateSeq(a, x, patterns_on) ==
    IF x.prefilter THEN [a EXCEPT !.prefilter = @ + 1]
    ELSE LET a1 == [a EXCEPT !.tested = @ + 1,
                             !.patterns = IF patterns_on
                                          THEN Append(@, Val(x.pattern)) ELSE @]
         IN  IF x.filter THEN a1
             ELSE [a1 EXCEPT !.printed = @ + 1,
                             !.out = Append(@, format_output(x))]

\* One turn of "for data in v_iter" (lines 407-423): iter_variants reads a
\* record and yields, the variant is fitted and the result aggregated. At eof
\* iter_variants raises StopIteration inside the generator: the interpreter
\* ends the generator (before PEP 479) or turns it into a RuntimeError.
SeqStep ==
    /\ pc = "sequential"
    /\ \E r \in ReadResults(hist.calls + 1), verdict, pep479 \in BOOLEAN :
          IF r.eof
          THEN /\ pc' = IF pep479 THEN "crashed" ELSE "report"
               /\ hist' = [NoteRead(hist, r) EXCEPT
                             !.cause = IF pep479 THEN "RuntimeError" ELSE @]
               /\ UNCHANGED << acc, ref >>
          ELSE LET data == iter_variants_yield(r, Val(min_af), Val(max_af))
                   x == fixed_effects_regression(data, verdict)
               IN  /\ acc' = AggregateSeq(acc, x, output_patterns)
                   /\ ref' = acc'
                   /\ hist' = NoteYield(NoteRead(hist, r), data)
                   /\ pc' = pc
    /\ UNCHANGED << exit_code, lmm, cpu, continuous, p_index, min_af, max_af,
                    output_patterns, filter_pvalue, lrt_pvalue, report,
                    gen_done, chunk, ret, blk, rv >>

\* -------------------------------------------- fixed effects, parallel
ChunkSize == cpu * kmer_per_core

\* islice draws one more item from v_iter for starmap's argument list
\* (line 387); at eof as in SeqStep.
ParRead ==
    /\ pc = "parallel"
    /\ ~gen_done
    /\ Len(chunk) < ChunkSize
    /\ \E r \in ReadResults(hist.calls + 1), verdict, pep479 \in BOOLEAN :
          IF r.eof
          THEN /\ pc' = IF pep479 THEN "crashed" ELSE pc
               /\ gen_done' = ~pep479
               /\ hist' = [NoteRead(hist, r) EXCEPT
                             !.cause = IF pep479 THEN "RuntimeError" ELSE @]
               /\ UNCHANGED << chunk, ref >>
          ELSE LET data == iter_variants_yield(r, Val(min_af), Val(max_af))
                   item == [data |-> data, verdict |-> verdict /\ data.v # None]
               IN  /\ chunk' = Append(chunk, item)
                   /\ ref' = AggregateSeq(ref,
                                fixed_effects_regression(data, item.verdict),
                                output_patterns)
                   /\ hist' = NoteYield(NoteRead(hist, r), data)
                   /\ UNCHANGED << pc, gen_done >>
    /\ UNCHANGED << exit_code, lmm, cpu, continuous, p_index, min_af, max_af,
                    output_patterns, filter_pvalue, lrt_pvalue, acc, report,
                    ret, blk, rv >>

\* The chunk is complete: starmap hands it to the pool; an empty chunk gives
\* an empty ret and "if not ret: break" (lines 386-390).
ParDispatch ==
    /\ pc = "parallel"
    /\ gen_done \/ Len(chunk) = ChunkSize
    /\ IF chunk = << >>
       THEN /\ pc' = "report"
            /\ UNCHANGED << ret, hist >>
       ELSE /\ pc' = "fitting"
            /\ ret' = [i \in DOMAIN chunk |-> None]
            /\ hist' = [hist EXCEPT !.fits = [i \in DOMAIN chunk |-> 0]]
    /\ UNCHANGED << exit_code, lmm, cpu, continuous, p_index, min_af, max_af,
                    output_patterns, filter_pvalue, lrt_pvalue, acc, report,
                    gen_done, chunk, blk, ref, rv >>

\* A worker of the pool fits one item of the chunk.
WorkerFit ==
    /\ pc = "fitting"
    /\ \E i \in DOMAIN chunk :
          /\ ret[i] = None
          /\ ret' = [ret EXCEPT ![i] =
                       Some(fixed_effects_regression(chunk[i].data,
                                                     chunk[i].verdict))]
          /\ hist' = [hist EXCEPT !.fits[i] = @ + 1]
    /\ UNCHANGED << pc, exit_code, lmm, cpu, continuous, p_index, min_af,
                    max_af, output_patterns, filter_pvalue, lrt_pvalue, acc,
                    report, gen_done, chunk, blk, ref, rv >>

\* A loop that writes the pattern of printed variants only.
AggregateParPrintedOnly(a, x, patterns_on) ==
    IF x.prefilter THEN [a EXCEPT !.prefilter = @ + 1]
    ELSE IF x.filter THEN [a EXCEPT !.tested = @ + 1]
    ELSE [a EXCEPT !.tested = @ + 1,
                   !.patterns = IF patterns_on THEN Append(@, Val(x.pattern)) ELSE @,
                   !.printed = @ + 1,
                   !.out = Append(@, format_output(x))]

\* lines 391-405: what the loop over ret does with one result
AggregatePar(a, x, patterns_on) ==
    IF x.prefilter THEN [a EXCEPT !.prefilter = @ + 1]
    ELSE LET a1 == [a EXCEPT !.tested = @ + 1,
                             !.patterns = IF patterns_on
                                          THEN Append(@, Val(x.pattern)) ELSE @]
         IN  IF x.filter THEN a1
             ELSE [a1 EXCEPT !.printed = @ + 1,
                             !.out = Append(@, format_output(x))]

RECURSIVE AggregateRet(_, _, _)
AggregateRet(a, results, patterns_on) ==
    IF results = << >> THEN a
    ELSE AggregateRet(AggregatePar(a, Val(Head(results)), patterns_on),
                      Tail(results), patterns_on)

\* starmap returns when every item is fitted, the results in the order of
\* the arguments; the loop of lines 391-405 then runs over them.
ParAggregate ==
    /\ pc = "fitting"
    /\ \A i \in DOMAIN ret : ret[i] # None
    /\ acc' = AggregateRet(acc, ret, output_patterns)
    /\ chunk' = << >>
    /\ ret' = << >>
    /\ pc' = "parallel"
    /\ UNCHANGED << exit_code, lmm, cpu, continuous, p_index, min_af, max_af,
                    output_patterns, filter_pvalue, lrt_pvalue, report,
                    gen_done, blk, hist, ref, rv >>

\* -------------------------------------------------------------- LMM
\* One turn of the loop of load_var_block (lines 280-306).
LmmRead ==
    /\ pc = "lmm"
    /\ ~blk.eof
    /\ blk.var_idx < lmm_block_size
    /\ \E r \in ReadResults(hist.calls + 1), pre_filtering \in PGrid :
          LET prep == IF ~continuous THEN pre_filtering ELSE Rat(0, 1)
          IN
          IF r.eof
          THEN /\ blk' = [blk EXCEPT !.eof = TRUE]
               /\ hist' = NoteRead(hist, r)
               /\ pc' = pc
          ELSE IF BlockAfPass(r, Val(min_af), Val(max_af))
          THEN IF RatLt(prep, Val(filter_pvalue))
               THEN LET pattern == hash_pattern(Val(r.k))
                        variant == load_var_block_LMM(r, pattern, prep)
                    IN  IF variant = None
                        THEN /\ pc' = "crashed"
                             /\ hist' = [NoteRead(hist, r) EXCEPT
                                           !.cause = "TypeError",
                                           !.admitted = @ + 1,
                                           !.block_ks = Append(@, Val(r.k))]
                             /\ blk' = blk
                        ELSE /\ blk' = [blk EXCEPT
                                   !.variants = Append(@, Val(variant)),
                                   !.variant_mat[blk.var_idx + 1] = Val(r.k),
                                   !.var_idx = @ + 1]
                             /\ hist' = [NoteRead(hist, r) EXCEPT
                                           !.yielded = Append(@, pattern),
                                           !.admitted = @ + 1,
                                           !.block_ks = Append(@, Val(r.k))]
                             /\ pc' = pc
               ELSE /\ blk' = [blk EXCEPT !.var_idx = @ + 1]
                    /\ hist' = [NoteRead(hist, r) EXCEPT !.lost = @ + 1]
                    /\ pc' = pc
          ELSE /\ blk' = [blk EXCEPT !.prefilter = @ + 1, !.var_idx = @ + 1]
               /\ hist' = NoteRead(hist, r)
               /\ pc' = pc
    /\ UNCHANGED << exit_code, lmm, cpu, continuous, p_index, min_af, max_af,
                    output_patterns, filter_pvalue, lrt_pvalue, acc, report,
                    gen_done, chunk, ret, ref, rv >>

\* lines 448-456: what the loop over fitted_variants does with one variant
AggregateLmm(a, variant, patterns_on, lrt) ==
    LET a1 == [a EXCEPT !.patterns = IF patterns_on
                                     THEN Append(@, variant.pattern) ELSE @]
    IN  IF RatLt(variant.pvalue, lrt)
        THEN [a1 EXCEPT !.printed = @ + 1,
                        !.out = Append(@, format_output_lmm(variant))]
        ELSE a1

RECURSIVE AggregateFitted(_, _, _, _)
AggregateFitted(a, fitted, patterns_on, lrt) ==
    IF fitted = << >> THEN a
    ELSE AggregateFitted(AggregateLmm(a, Head(fitted), patterns_on, lrt),
                         Tail(fitted), patterns_on, lrt)

\* line 309: the columns of the matrix that are not all zero
RemoveEmptyColumns(variant_mat) ==
    SelectSeq(variant_mat, LAMBDA col : \E i \in DOMAIN col : col[i] # 0)

\* load_var_block returns (lines 308-314) and main takes the block
\* (lines 439-456), then leaves the loop at eof or loads the next block.
LmmBlockDone ==
    /\ pc = "lmm"
    /\ blk.eof \/ blk.var_idx = lmm_block_size
    /\ LET variant_mat == RemoveEmptyColumns(blk.variant_mat)
           counts == [prefilter |-> blk.prefilter, tested |-> Len(blk.variants)]
           a1 == [acc EXCEPT !.prefilter = @ + counts.prefilter,
                             !.tested = @ + counts.tested]
       IN  IF counts.tested > 0
           THEN /\ \E pvalues \in [1 .. Len(blk.variants) -> PGrid] :
                      acc' = AggregateFitted(a1,
                                fit_lmm(blk.variants, variant_mat, pvalues),
                                output_patterns, Val(lrt_pvalue))
                /\ hist' = [hist EXCEPT !.block_ks = << >>, !.blocks =
                              Append(@, [variants |-> blk.variants,
                                         variant_mat |-> variant_mat,
                                         eof |-> blk.eof])]
           ELSE /\ acc' = a1
                /\ hist' = [hist EXCEPT !.block_ks = << >>]
    /\ pc' = IF blk.eof THEN "report" ELSE "lmm"
    /\ blk' = Blk0
    /\ UNCHANGED << exit_code, lmm, cpu, continuous, p_index, min_af, max_af,
                    output_patterns, filter_pvalue, lrt_pvalue, report,
                    gen_done, chunk, ret, ref, rv >>

\* ----------------------------------------------------------- the end
\* lines 458-461
Report ==
    /\ pc = "report"
    /\ report' = Some([loaded |-> acc.prefilter + acc.tested,
                       filtered |-> acc.prefilter,
                       tested |-> acc.tested,
                       printed |-> acc.printed])
    /\ pc' = "done"
    /\ exit_code' = Some(0)
    /\ UNCHANGED << lmm, cpu, continuous, p_index, min_af, max_af,
                    output_patterns, filter_pvalue, lrt_pvalue, acc, gen_done,
                    chunk, ret, blk, hist, ref, rv >>

\* ---------------------------------------------------------------- SpecRV
\* Most records one fetch of a burden region returns.
MaxFetch == 2

\* All sequences over S of length at most n
SeqsUpTo(S, n) == UNION { [1 .. m -> S] : m \in 0 .. n }

\* The samples the variant-call file names: it lacks the first sample of the
\* phenotype and has one the phenotype lacks.
VcfSamples == Ids \ {1}

GTs ==
    { << Some(0), Some(0) >>, << Some(0), Some(1) >>, << None, None >>,
      << None, Some(0) >> }

KmerLines(name) ==
    { [var_name |-> name, strains |-> t] : t \in SeqsUpTo(Ids, NSamples) }

RtabLines(name, sample_order) ==
    { [var_name |-> name, strains |-> t] :
        t \in SeqsUpTo({"0", "1"}, Len(sample_order)) }

VcfRecords(name) ==
    { [contig |-> "c", pos |-> name, alts |-> a, filter |-> f, samples |-> g] :
        a \in { << "T" >>, << "T", "G" >> },
        f \in { {"PASS"}, {"."}, {"q10"}, {} },
        g \in [VcfSamples -> GTs] }

\* The records a fetch returns: bi-allelic records in which at most one
\* sample carries the variant, and a multi-allelic record that every sample
\* carries
BurdenRecords ==
    { [contig |-> "c", pos |-> 1, alts |-> << "T" >>, filter |-> {"PASS"},
       samples |-> [x \in VcfSamples |->
                      IF x \in S THEN << Some(0), Some(1) >>
                      ELSE << Some(0), Some(0) >>]] :
        S \in { {} } \cup { {x} : x \in VcfSamples } }
    \cup
    { [contig |-> "c", pos |-> 1, alts |-> << "T", "G" >>, filter |-> {"PASS"},
       samples |-> [x \in VcfSamples |-> << Some(0), Some(1) >>]] }

RegionTexts == { << "c", ":", "1", "-", "5" >>, << "c", "1", "-", "5" >> }

\* The lines of a region file, split: the i-th region is named i
RegionFiles ==
    { [i \in DOMAIN t |-> << i, t[i] >>] : t \in SeqsUpTo(RegionTexts, MaxRecords) }

\* The header of an Rtab file
SampleOrders ==
    { [i \in 1 .. NSamples + 1 |-> i], [i \in 1 .. NSamples |-> NSamples + 1 - i] }

RvOff ==
    [stage |-> "off", var_type |-> "none", burden |-> FALSE,
     region_file |-> << >>, burden_regions |-> << >>, p_index |-> << >>,
     sample_order |-> << >>, min_af |-> None, max_af |-> None,
     calls |-> 0, at_eof |-> FALSE, noneof |-> 0, eofs |-> 0,
     last |-> None, d |-> {}, iter_none |-> FALSE, block_pass |-> FALSE,
     popped |-> << >>, queue_before |-> << >>, fetched |-> << >>,
     line_in |-> None, fetched_n |-> 0]

RvInit ==
    /\ pc = "idle"
    /\ exit_code = None
    /\ lmm = FALSE
    /\ cpu = 1
    /\ continuous = FALSE
    /\ p_index = << >>
    /\ min_af = None /\ max_af = None
    /\ output_patterns = FALSE
    /\ filter_pvalue = None /\ lrt_pvalue = None
    /\ acc = Acc0
    /\ report = None
    /\ gen_done = FALSE
    /\ chunk = << >>
    /\ ret = << >>
    /\ blk = Blk0
    /\ hist = Hist0
    /\ ref = Acc0
    /\ \E vt \in { << "kmers", FALSE >>, << "Rtab", FALSE >>,
                   << "vcf", FALSE >>, << "vcf", TRUE >> },
          pi \in PIndexOrders, b \in AfBounds :
          \E rf \in IF vt[2] THEN RegionFiles ELSE { << >> },
             so \in IF vt[1] = "Rtab" THEN SampleOrders ELSE { << >> } :
             rv = [RvOff EXCEPT !.stage = "open", !.var_type = vt[1],
                                !.burden = vt[2], !.region_file = rf,
                                !.p_index = pi, !.sample_order = so,
                                !.min_af = Some(b[1]), !.max_af = Some(b[2])]

\* __main__.py lines 319-336: the variant file is opened; with --burden the
\* region file is loaded into the queue.
RvOpen ==
    /\ rv.stage = "open"
    /\ rv' = [rv EXCEPT !.stage = "reading",
                        !.burden_regions =
                            IF rv.burden THEN load_burden(rv.region_file, @)
                            ELSE @]
    /\ UNCHANGED main_vars

\* What the source holds for the next call: the line (None at the end of the
\* file).
RvLines ==
    IF rv.at_eof \/ rv.noneof >= MaxRecords THEN { None }
    ELSE { None } \cup
         { Some(l) : l \in
             IF rv.var_type = "kmers" THEN KmerLines(rv.calls + 1)
             ELSE IF rv.var_type = "Rtab"
                  THEN RtabLines(rv.calls + 1, rv.sample_order)
                  ELSE VcfRecords(rv.calls + 1) }

\* The source as the next call will find it: the next line of the file, or,
\* with burden regions, the records the indexed file holds for the region at
\* the front of the queue.
RvDraw ==
    /\ rv.stage = "reading"
    /\ rv.calls < MaxRecords + 2
    /\ \E line_in \in IF rv.burden THEN { None } ELSE RvLines,
          fetched \in IF rv.burden /\ rv.burden_regions # << >>
                      THEN SeqsUpTo(BurdenRecords, MaxFetch)
                      ELSE { << >> } :
          rv' = [rv EXCEPT !.stage = "drawn", !.line_in = line_in,
                           !.fetched = fetched]
    /\ UNCHANGED main_vars

\* One call of read_variant; the AF tests of iter_variants and of
\* load_var_block are both applied to what it returns.
RvReadVariant ==
    /\ rv.stage = "drawn"
    /\ LET pop == BurdenPop(rv.burden_regions)
           line_in == IF rv.burden THEN pop.line_in ELSE rv.line_in
           r == read_variant(line_in, rv.fetched, rv.p_index, rv.var_type,
                             rv.burden, Range(rv.p_index), rv.sample_order)
           f == IF line_in = None THEN EmptyDict
                ELSE variant_dict(Val(line_in), rv.fetched, rv.var_type,
                                  rv.burden, rv.sample_order).d
       IN  rv' = [rv EXCEPT
                    !.stage = "reading",
                    !.calls = @ + 1,
                    !.at_eof = r.eof,
                    !.noneof = @ + (IF r.eof THEN 0 ELSE 1),
                    !.eofs = @ + (IF r.eof THEN 1 ELSE 0),
                    !.burden_regions = IF rv.burden THEN pop.rest ELSE @,
                    !.queue_before = rv.burden_regions,
                    !.popped = IF rv.burden /\ line_in # None
                               THEN Append(@, Val(line_in)) ELSE @,
                    !.last = Some(r),
                    !.d = DOMAIN f,
                    !.fetched = << >>,
                    !.fetched_n = Len(rv.fetched),
                    !.line_in = None,
                    !.iter_none = IterRejects(r, Val(rv.min_af), Val(rv.max_af)),
                    !.block_pass = BlockAfPass(r, Val(rv.min_af), Val(rv.max_af))]
    /\ UNCHANGED main_vars

RvNext == RvOpen \/ RvDraw \/ RvReadVariant

SpecRV == RvInit /\ [][RvNext]_vars

\* ----------------------------------------------------------- SpecLmmLoop
\* The variants fit_lmm returns for a block of n variants: LMM records, one
\* per variant of the block, with the p-value of the fit.
FittedVariants(n) ==
    { fit_lmm([i \in 1 .. n |->
                 Val(LMM(<< i, hash_pattern([j \in 1 .. NSamples |-> 1]),
                            Rat(NSamples, NSamples), Rat(0, 1), 0, 0, 0, 0,
                            None, sorted(Samples), << >>, "", FALSE, FALSE >>))],
              << >>, pvalues) : pvalues \in [1 .. n -> PGrid] }

\* main at line 447, with the block fitted and its counts added (lines
\* 439-440): ret holds the fitted variants the loop has still to take.
LmmLoopInit ==
    /\ pc = "lmm_loop"
    /\ exit_code = None
    /\ lmm = TRUE
    /\ cpu = 1
    /\ continuous = FALSE
    /\ p_index = << >>
    /\ min_af = None /\ max_af = None
    /\ output_patterns \in BOOLEAN
    /\ filter_pvalue = None
    /\ lrt_pvalue \in { Some(x) : x \in PGrid }
    /\ report = None
    /\ gen_done = FALSE
    /\ chunk = << >>
    /\ \E n \in 1 .. MaxRecords : ret \in FittedVariants(n)
    /\ acc = [Acc0 EXCEPT !.tested = Len(ret)]
    /\ blk = Blk0
    /\ hist = [Hist0 EXCEPT !.io = TRUE, !.streaming = TRUE, !.fits = ret]
    /\ ref = Acc0
    /\ rv = RvOff

\* One turn of `for variant in fitted_variants` (lines 447-456)
LmmLoopStep ==
    /\ pc = "lmm_loop"
    /\ ret # << >>
    /\ acc' = AggregateLmm(acc, Head(ret), output_patterns, Val(lrt_pvalue))
    /\ ret' = Tail(ret)
    /\ UNCHANGED << pc, exit_code, lmm, cpu, continuous, p_index, min_af,
                    max_af, output_patterns, filter_pvalue, lrt_pvalue,
                    report, gen_done, chunk, blk, hist, ref, rv >>

SpecLmmLoop == LmmLoopInit /\ [][LmmLoopStep]_vars

Init == MainInit /\ rv = RvOff

Next ==
    \/ CheckArgs
    \/ LoadPhenotypes
    \/ LoadCovariates
    \/ SetupModels
    \/ OpenVariants
    \/ SeqStep
    \/ ParRead
    \/ ParDispatch
    \/ WorkerFit
    \/ ParAggregate
    \/ LmmRead
    \/ LmmBlockDone
    \/ Report

Spec == Init /\ [][Next]_vars


\* ------------------------------------------------------------- claims
Running == pc \notin {"done", "exit", "crashed"}
Ended == ~Running /\ pc # "idle"

IsPrefix(s, t) == Len(s) <= Len(t) /\ s = SubSeq(t, 1, Len(s))

\* C1: at the end of a run every valid record read has been counted once:
\* prefiltered + tested is the number of valid records read_variant
\* returned, and printed is at most tested. (Stated for the sources that hold
\* no rejected record; what a rejected record does to the counts is C8.)
C1_Partition ==
    pc = "done" =>
        /\ hist.invalid = 0 => acc.prefilter + acc.tested = hist.valid
        /\ acc.printed <= acc.tested

\* C3: in the fixed-effects path a run with cpu > 1 ends with the output,
\* the pattern digests and the counts that the sequential loop produces from
\* the same records.
C3_ParallelAsSequential ==
    (Ended /\ hist.streaming /\ ~lmm /\ cpu > 1) => acc = ref

\* C4: a run that asks for lmm with cpu > 1 never opens an input file and
\* never creates the pool, and when it ends it has exited non-zero.
C4_LmmParallelRefused ==
    (lmm /\ cpu > 1) =>
        /\ ~hist.io /\ ~hist.pool /\ ~hist.streaming
        /\ pc \in {"check_args", "exit"}
        /\ pc = "exit" => (exit_code # None /\ Val(exit_code) # 0)

C4_Witness == lmm /\ cpu > 1 /\ pc = "exit" /\ exit_code = Some(1)

\* C5: with the patterns file open, the digests written are those of the
\* tested variants, one each, in the order the variants were read: as many
\* as the tested counter says, a prefix of the digests of the variants
\* handed on by the reader, and all of them at the end of the run.
C5_PatternsSink ==
    /\ output_patterns =>
          /\ Len(acc.patterns) = acc.tested
          /\ IsPrefix(acc.patterns, hist.yielded)
          /\ pc = "done" => acc.patterns = hist.yielded
    /\ ~output_patterns => acc.patterns = << >>

C5_Witness ==
    /\ pc = "done" /\ output_patterns /\ cpu > 1
    /\ acc.prefilter > 0
    /\ acc.tested = 2 /\ acc.printed = 1
    /\ acc.patterns[1] # acc.patterns[2]

\* C6: once the variant loop has begun the run ends only by the count
\* report: eof ends the loop without an error, no record is read after eof,
\* and the four counts are written.
C6_ReachesReport ==
    hist.streaming =>
        /\ pc # "crashed"
        /\ hist.after_eof = 0
        /\ pc = "done" => report # None

\* C7: an exit caused by the options (the argument checks, the
\* --use-covariates selection) happens before any input is read.
C7_OptionExitsBeforeInput ==
    (pc = "exit" /\ hist.cause \in {"arguments", "use_covariates"}) =>
        (~hist.io /\ ~hist.streaming)

\* C8: a record the format rejects (k None without eof) is counted nowhere:
\* the counters of a finished run cover the valid records only.
C8_InvalidSkipped ==
    /\ pc = "done" => acc.prefilter + acc.tested <= hist.valid
    /\ pc = "lmm" => blk.prefilter + Len(blk.variants) + acc.prefilter
                        + acc.tested <= hist.valid

\* -------------------------------------------------- claims on read_variant
\* The last call returned a variant
RvValid == rv.last # None /\ Val(rv.last).k # None

\* The number of phenotype samples in the presence set of the last record
RvPresent == Cardinality(rv.d \cap Range(rv.p_index))

\* The AF of the last record as the claims define it
RvAf == Rat(RvPresent, Len(rv.p_index))

Ones(k) == Cardinality({ i \in DOMAIN k : k[i] = 1 })

\* C2: a valid variant is rejected by the AF filter exactly when its AF
\* (present samples over samples) is strictly below min_af or strictly above
\* max_af, so AF equal to either bound is retained; iter_variants and
\* load_var_block decide alike on every record and every pair of bounds.
C2_AfFilterInclusive ==
    rv.last # None =>
        /\ rv.block_pass = ~rv.iter_none
        /\ RvValid =>
              (rv.iter_none <=> (\/ RatLt(RvAf, Val(rv.min_af))
                                 \/ RatLt(Val(rv.max_af), RvAf)))

\* a variant whose AF equals both bounds is retained by both paths
C2_Witness ==
    /\ RvValid
    /\ RatEq(RvAf, Val(rv.min_af)) /\ RatEq(RvAf, Val(rv.max_af))
    /\ ~rv.iter_none /\ rv.block_pass
    /\ rv.calls > 1

\* C9: for every accepted record of the three formats the indicator has one
\* entry per phenotype sample in phenotype order, entry i is 1 exactly when
\* sample i is in the record's presence set, the present and absent lists are
\* disjoint and cover the samples, and af is the number of ones over the
\* number of samples; samples [A,B,C,D] with presence {A,C} give [1,0,1,0]
\* and af 0.5.
C9_IndicatorMatchesPresence ==
    /\ RvValid =>
          LET r == Val(rv.last)
              k == Val(r.k)
          IN  /\ Len(k) = Len(rv.p_index)
              /\ \A i \in DOMAIN k :
                    /\ k[i] \in {0, 1}
                    /\ k[i] = 1 <=> rv.p_index[i] \in rv.d
              /\ Range(Val(r.kstrains)) \cap Range(Val(r.nkstrains)) = {}
              /\ Range(Val(r.kstrains)) \cup Range(Val(r.nkstrains))
                    = Range(rv.p_index)
              /\ Range(Val(r.kstrains)) = rv.d \cap Range(rv.p_index)
              /\ RatEq(Val(r.af), Rat(Ones(k), Len(rv.p_index)))
    /\ LET e == CommonDictionary(FALSE, "v", [x \in {1, 3} |-> 1],
                                 << 1, 2, 3, 4 >>, {1, 2, 3, 4})
       IN  Val(e.k) = << 1, 0, 1, 0 >> /\ RatEq(Val(e.af), Rat(1, 2))

\* an Rtab record read against a phenotype listed in the other order, naming
\* a sample the phenotype lacks and one phenotype sample only
C9_Witness ==
    /\ RvValid
    /\ rv.var_type = "Rtab"
    /\ rv.p_index[1] > rv.p_index[Len(rv.p_index)]
    /\ (NSamples + 1) \in rv.d
    /\ Ones(Val(Val(rv.last).k)) = 1
    /\ Val(Val(rv.last).k)[1] # Val(Val(rv.last).k)[Len(rv.p_index)]

\* C10: in burden mode the k-th call consumes the k-th region of the region
\* file, every call on a non-empty queue removes exactly its front entry,
\* well formed or not, and on an empty queue every call returns
\* end-of-stream and leaves it empty: a file of N regions gives N
\* non-end-of-stream results and then end-of-stream.
C10_BurdenQueueFifo ==
    (rv.burden /\ rv.stage = "reading") =>
        LET N == Len(rv.region_file)
        IN  /\ IsPrefix(rv.popped, rv.region_file)
            /\ rv.burden_regions = SubSeq(rv.region_file, Len(rv.popped) + 1, N)
            /\ Len(rv.popped) = Min({rv.calls, N})
            /\ rv.noneof = Len(rv.popped)
            /\ rv.eofs = rv.calls - rv.noneof
            /\ rv.last # None =>
                  /\ Val(rv.last).eof <=> rv.queue_before = << >>
                  /\ Len(rv.queue_before) - Len(rv.burden_regions)
                        = (IF Val(rv.last).eof THEN 0 ELSE 1)

\* two regions, one of them malformed, consumed and then two calls at the end
C10_Witness ==
    /\ rv.burden /\ rv.stage = "reading"
    /\ Len(rv.region_file) = 2
    /\ \E i \in 1 .. 2 : ~region_match(rv.region_file[i][2])
    /\ rv.popped = rv.region_file
    /\ rv.noneof = 2 /\ rv.eofs = 2
    /\ rv.burden_regions = << >>

\* ------------------------------------------------- claims on burden regions
\* The samples one fetched record marks present
RecordPresence(variant) == DOMAIN read_vcf_var(variant, EmptyDict).d

\* The next call will read a well formed region
RvRegion ==
    /\ rv.burden /\ rv.stage = "drawn" /\ rv.burden_regions # << >>
    /\ region_match(rv.burden_regions[1][2])

\* C11: in burden mode the presence set of a region is the union of the
\* presence sets of the records fetched for it, and a region with no record
\* gives an empty presence set, af = 0 and an indicator that is not None.
C11_BurdenUnion ==
    [][RvRegion =>
        /\ Val(rv'.last).k # None
        /\ rv'.d = UNION { RecordPresence(rv.fetched[i]) : i \in DOMAIN rv.fetched }
        /\ Range(Val(Val(rv'.last).kstrains)) = rv'.d \cap Range(rv.p_index)
        /\ rv.fetched = << >> =>
              /\ rv'.d = {}
              /\ RatEq(Val(Val(rv'.last).af), Rat(0, 1))
              /\ Ones(Val(Val(rv'.last).k)) = 0]_vars

\* a region with two records that mark different samples, one of them a
\* phenotype sample
C11_Witness ==
    /\ rv.burden /\ RvValid
    /\ region_match(rv.queue_before[1][2])
    /\ rv.fetched_n = 2
    /\ Cardinality(rv.d) = 2
    /\ Ones(Val(Val(rv.last).k)) = 1

\* ------------------------------------------------- claims on the LMM loop
\* The fitted variants of the block whose p-value is above the threshold
LmmAbove == { i \in DOMAIN hist.fits : RatLt(Val(lrt_pvalue), hist.fits[i].pvalue) }

RECURSIVE BlockTotal(_)
BlockTotal(blocks) ==
    IF blocks = << >> THEN 0
    ELSE Len(Head(blocks).variants) + BlockTotal(Tail(blocks))

\* C13: a block goes to fit_lmm only when it holds block_size admitted
\* variants or the source is exhausted, fit_lmm is called once per block with
\* an admitted variant and never for an empty one, every admitted variant is
\* in exactly one block, and blocks keep the order of the source.
C13_BlockBatching ==
    lmm =>
        /\ \A b \in DOMAIN hist.blocks :
              /\ hist.blocks[b].variants # << >>
              /\ Len(hist.blocks[b].variants) = lmm_block_size
                    \/ hist.blocks[b].eof
              /\ \A i, j \in DOMAIN hist.blocks[b].variants :
                    i < j => hist.blocks[b].variants[i].kmer
                                < hist.blocks[b].variants[j].kmer
              /\ \A c \in DOMAIN hist.blocks :
                    b < c => hist.blocks[b].variants[1].kmer
                                < hist.blocks[c].variants[1].kmer
        /\ ~Running => BlockTotal(hist.blocks) = hist.admitted
        /\ (pc = "lmm" /\ blk.var_idx = 0) =>
              BlockTotal(hist.blocks) = hist.admitted

\* C14: admitting a variant into an LMM block never fails: every record that
\* passes the AF bounds and the pre-test is appended as a record with every
\* field of the LMM type, and the loop goes on.
C14_AdmitNeverFails ==
    lmm =>
        /\ hist.cause # "TypeError"
        /\ Len(blk.variants) = Len(hist.block_ks)
        /\ \A i \in DOMAIN blk.variants :
              DOMAIN blk.variants[i] = Range(LMMFields)

ParallelDiscipline ==
    (~lmm /\ cpu > 1 /\ hist.streaming) =>
        /\ Len(chunk) <= ChunkSize
        /\ pc = "fitting" =>
              /\ chunk # << >>
              /\ Len(chunk) = ChunkSize \/ gen_done
              /\ DOMAIN ret = DOMAIN chunk /\ DOMAIN hist.fits = DOMAIN chunk
              /\ \A i \in DOMAIN chunk :
                    /\ hist.fits[i] \in {0, 1}
                    /\ hist.fits[i] = 1 <=> ret[i] # None
        /\ pc # "fitting" => ret = << >>

\* C15: in the parallel fixed-effects path only the main process reads the
\* source; a chunk has at most cpu * kmer_per_core records and is read
\* completely before a worker gets any of it, nothing is read while workers
\* fit or before the chunk's results are aggregated, and every record read is
\* fitted by one worker exactly once.
C15_SingleReader ==
    /\ ParallelDiscipline
    /\ [][hist'.calls # hist.calls => (pc # "fitting" /\ ret = << >>)]_vars
    /\ [](( ~lmm /\ cpu > 1 /\ hist.streaming /\ ~Running) => chunk = << >>)

\* ------------------------------------------------ claims on VCF records
\* The next call will read a record of a VCF file (no burden regions)
RvVcfRecord ==
    rv.var_type = "vcf" /\ ~rv.burden /\ rv.stage = "drawn" /\ rv.line_in # None

\* read_vcf_var accepts the record
VcfAccepted(variant) ==
    /\ Len(variant.alts) <= 1
    /\ "PASS" \in variant.filter \/ "." \in variant.filter

\* The samples with a haplotype call that is neither missing nor reference
VcfCarriers(variant) ==
    { smp \in DOMAIN variant.samples :
        \E i \in DOMAIN variant.samples[smp] :
            /\ variant.samples[smp][i] # None
            /\ variant.samples[smp][i] # Some(0) }

\* C16: for a VCF record read_vcf_var accepts, a sample is marked present
\* exactly when one of its haplotype calls is neither missing nor the
\* reference allele; all missing, all reference or a mix of the two leaves it
\* absent; a rejected record marks no sample.
C16_VcfPresence ==
    [][RvVcfRecord =>
        /\ VcfAccepted(Val(rv.line_in)) =>
              /\ Val(rv'.last).k # None
              /\ rv'.d = VcfCarriers(Val(rv.line_in))
        /\ ~VcfAccepted(Val(rv.line_in)) =>
              (Val(rv'.last).k = None /\ rv'.d = {})]_vars

\* ---------------------------------------------------- claims on the setup
\* C18: for every combination of lmm, lineage, lineage_clusters and
\* continuous that passes the checks at the start of main, every local main
\* reads during setup has been assigned before; null_fit before null_fit.llf,
\* m before it serves as the lineage clusters or goes to iter_variants.
C18_SetupAssigned == hist.unbound = {} /\ hist.cause # "UnboundLocalError"

====
